---- MODULE Spec2Model ----
(***************************************************************************)
(* State-machine model of the routes microservice:                         *)
(*   - the Route collection (routes.schema.ts) held by the document store, *)
(*   - RoutesService (routes.service.ts): create, findAll, findOne,        *)
(*     update, remove, searchRoutes,                                       *)
(*   - RoutesController (routes.controller.ts): the HTTP handlers and the  *)
(*     message-pattern handlers, and the ApiResponse envelope.             *)
(*                                                                         *)
(* Text that the service searches or formats (names, routeId) is a         *)
(* sequence of one-character strings, so that formatting, substring and    *)
(* regular-expression matching are computed and not assumed.  The store    *)
(* calls the service makes (save, findById, findByIdAndUpdate,             *)
(* findByIdAndDelete, find/sort/skip/limit, countDocuments) are modelled   *)
(* with the behaviour of Mongoose on a MongoDB collection.  The store is   *)
(* always reachable here: the failures that occur are the ones the inputs  *)
(* cause (cast, validation, duplicate key, bad regular expression,         *)
(* negative skip).                                                         *)
(***************************************************************************)
EXTENDS Integers, Sequences, FiniteSets, Bags, TLC

VARIABLES
    store,      \* the Route collection: _id -> document
    now,        \* the clock read by Date (milliseconds)
    nextOid,    \* index of the next ObjectId the driver generates
    creating,   \* the create requests in flight, whose document is built and
                \* whose save() the store has not applied: _id -> the clock
                \* the request read
    listing,    \* the list requests in flight (findAll, searchRoutes) of
                \* whose two queries the store has answered one: a bag of
                \* which one, and the collection it was answered on
    last,       \* the request just answered: operation, arguments, what it
                \* read before its last store call (the clock, the collection
                \* of a list's first answer), the store before it (writes),
                \* the service's outcome
    resp,       \* the envelope the handler of that request returned
    live,       \* history: ids returned by a create and not yet returned by a remove
    removed,    \* history: ids of the entities a remove returned
    racing      \* the two requests that two clients have in flight on the same
                \* route id, and the outcome of each once the store has applied
                \* its call; Null when no such pair is followed

vars == <<store, now, nextOid, creating, listing, last, resp, live, removed, racing>>

----------------------------------------------------------------------------
(* Bounds of the model *)

\* number of create requests (each consumes a fresh ObjectId)
MaxCreates == 2
\* number of list requests that are between their two answers at one time
MaxLists == 2
\* the clock runs over 0 .. MaxTime
MaxTime == 1

----------------------------------------------------------------------------
(* Program constants *)

HttpOK == 200
HttpCreated == 201
HttpBadRequest == 400
HttpNotFound == 404
HttpInternalServerError == 500
DefaultLimit == 10
DefaultPage == 1
UuidPrefixLen == 8

----------------------------------------------------------------------------
(* JavaScript values *)

Null == [null |-> TRUE]
Undefined == [undefined |-> TRUE]

\* JavaScript truthiness of the values a handler tests with `!route` / `data || null`
Truthy(v) == v # Null /\ v # Undefined

Min(a, b) == IF a < b THEN a ELSE b
Max(a, b) == IF a > b THEN a ELSE b

----------------------------------------------------------------------------
(* Text *)

UpperCase == <<"A","B","C","D","E","F","G","H","I","J","K","L","M","N","O","P","Q","R","S","T","U","V","W","X","Y","Z">>
LowerCase == <<"a","b","c","d","e","f","g","h","i","j","k","l","m","n","o","p","q","r","s","t","u","v","w","x","y","z">>
DigitChars == <<"0","1","2","3","4","5","6","7","8","9">>

ToLower(c) ==
    IF \E i \in 1..Len(UpperCase) : UpperCase[i] = c
    THEN LowerCase[CHOOSE i \in 1..Len(UpperCase) : UpperCase[i] = c]
    ELSE c

\* Number.prototype.toString() of a non-negative integer, as characters
RECURSIVE NumToString(_)
NumToString(n) ==
    IF n < 10 THEN <<DigitChars[n + 1]>>
    ELSE NumToString(n \div 10) \o <<DigitChars[(n % 10) + 1]>>

\* String.prototype.substring(0, k)
Substring0(s, k) == SubSeq(s, 1, Min(k, Len(s)))

\* text contains needle as a substring, ignoring case
ContainsIgnoreCase(text, needle) ==
    \E i \in 0..(Len(text) - Len(needle)) :
        \A k \in 1..Len(needle) : ToLower(text[i + k]) = ToLower(needle[k])

\* MongoDB $regex with $options 'i' (PCRE), for patterns made of literal
\* characters, "." (any character) and parentheses.  A pattern whose
\* parentheses do not balance does not compile; groups are not interpreted
\* (no search text used here holds a balanced group).
RECURSIVE ParenDepthOk(_, _, _)
ParenDepthOk(p, i, depth) ==
    IF i > Len(p) THEN depth = 0
    ELSE IF p[i] = "(" THEN ParenDepthOk(p, i + 1, depth + 1)
    ELSE IF p[i] = ")" THEN depth > 0 /\ ParenDepthOk(p, i + 1, depth - 1)
    ELSE ParenDepthOk(p, i + 1, depth)

RegexCompiles(p) == ParenDepthOk(p, 1, 0)

RegexCharMatches(pc, tc) == pc = "." \/ ToLower(pc) = ToLower(tc)

\* unanchored, case-insensitive regular-expression search of text
RegexTest(p, text) ==
    \E i \in 0..(Len(text) - Len(p)) :
        \A k \in 1..Len(p) : RegexCharMatches(p[k], text[i + k])

----------------------------------------------------------------------------
(* Inputs: ObjectIds, UUIDs, DTOs, update payloads, search texts *)

\* the ObjectIds the driver generates, in order of generation
OidPool == <<"650000000000000000000001", "650000000000000000000002",
             "650000000000000000000003", "650000000000000000000004">>
ObjectIds == {OidPool[i] : i \in 1..MaxCreates}
\* a request id that is no 24-hex-digit ObjectId
MalformedId == "abc"
\* the ids a request may carry: every ObjectId of the pool and a malformed one
RequestIds == ObjectIds \cup {MalformedId}

\* two version-4 UUIDs that differ, with the same first eight characters
UuidA == <<"3","f","2","a","9","c","1","e","-","7","b","4","4","-","4","d","1","a","-","9","e","0","c","-","5","a","6","f","0","d","2","b","8","c","1","1">>
UuidB == <<"3","f","2","a","9","c","1","e","-","0","1","a","a","-","4","f","3","e","-","8","b","7","d","-","c","2","e","9","4","a","5","f","6","d","2","0">>
Uuids == {UuidA, UuidB}

S_HomeToWork == <<"H","o","m","e"," ","t","o"," ","W","o","r","k">>
S_Office == <<"O","f","f","i","c","e">>
S_Depot == <<"D","e","p","o","t">>
S_Mall == <<"M","a","l","l">>
S_X == <<"X">>
S_MyRoute == <<"m","y","-","r","o","u","t","e">>

\* a body that passes CreateRouteDto's rules
DtoA ==
    [ name |-> S_HomeToWork,
      travelMode |-> "DRIVING",
      distance |-> [value |-> 12345, text |-> "12.3 km"],
      duration |-> [value |-> 3600, text |-> "1 hour"],
      origin |-> [name |-> S_Depot, lat |-> 40, lng |-> -74],
      destination |-> [name |-> S_Office, lat |-> 41, lng |-> -73],
      waypoints |-> << [name |-> S_Mall, lat |-> 40, lng |-> -73] >>,
      path |-> << [name |-> S_Depot, lat |-> 40, lng |-> -74],
                  [name |-> S_Mall, lat |-> 40, lng |-> -73],
                  [name |-> S_Office, lat |-> 41, lng |-> -73] >>,
      userId |-> "user-1" ]

\* DtoA without its name: no ValidationPipe is installed (main.ts), so the
\* body reaches the service as sent
DtoNoName == [f \in (DOMAIN DtoA) \ {"name"} |-> DtoA[f]]

CreateDtos == {DtoA, DtoNoName}

\* the payload of an update: a new name and a routeId (UpdateRouteDto is
\* PartialType(CreateRouteDto); the body reaches the service as sent)
UpdateDtos ==
    { [name |-> S_X, routeId |-> S_MyRoute] }

SearchTexts ==
    { <<"h","o","m","e">>,
      <<"H",".","m","e">>,
      <<"(">>,
      <<>> }

----------------------------------------------------------------------------
(* Route schema (routes.schema.ts) *)

\* the paths of the Route schema; strict mode drops every other field
SchemaPaths ==
    { "_id", "routeId", "name", "travelMode", "distance", "duration", "origin",
      "destination", "waypoints", "path", "createdAt", "updatedAt", "userId" }

\* @Prop({ required: true }) on a non-array path
RequiredPaths ==
    { "routeId", "name", "travelMode", "distance", "duration", "origin", "destination" }

\* restriction of a record to a set of fields
Restrict(r, fields) == [f \in (DOMAIN r) \cap fields |-> r[f]]

\* o2 spread over o1: { ...o1, ...o2 }
Spread(o1, o2) ==
    [f \in (DOMAIN o1) \cup (DOMAIN o2) |-> IF f \in DOMAIN o2 THEN o2[f] ELSE o1[f]]

\* new this.routeModel(data): strict cast, a fresh _id, and [] for the array
\* paths (`waypoints` by its default, `path` by Mongoose's implicit array default)
NewDocument(data, oid) ==
    Spread([_id |-> oid, waypoints |-> <<>>, path |-> <<>>], Restrict(data, SchemaPaths \ {"_id"}))

\* document validation at save(): every required path is there
ValidationFails(doc) == \E f \in RequiredPaths : f \notin DOMAIN doc

\* mutant: the schema without `unique: true` on routeId
RouteIdIsFree_NoIndex(s, id, routeId) == TRUE

\* the unique index on routeId: may `routeId` be written to document `id`?
RouteIdIsFree(s, id, routeId) ==
    \A other \in (DOMAIN s) \ {id} : s[other].routeId # routeId

\* the failures a call produces
ValidationError == [name |-> "ValidationError", message |-> "Route validation failed: name: Path name is required."]
DuplicateKeyError == [name |-> "MongoServerError", message |-> "E11000 duplicate key error collection: routes index: routeId_1"]
CastError == [name |-> "CastError", message |-> "Cast to ObjectId failed for value abc (type string) at path _id for model Route"]
RegexError == [name |-> "MongoServerError", message |-> "Regular expression is invalid: missing closing parenthesis"]
SkipError == [name |-> "MongoServerError", message |-> "BSON field 'skip' value must be >= 0"]

\* the outcome of a call: a returned value or a thrown error
Return(v) == [tag |-> "return", value |-> v]
Throw(e) == [tag |-> "throw", error |-> e]

\* casting a request id to ObjectId: 24 hexadecimal digits
IsObjectId(id) == \E i \in 1..Len(OidPool) : OidPool[i] = id

\* mutant: the document is inserted before the unique index is consulted, and
\* stays inserted when the index reports the duplicate
Save_KeepsRejected(s, doc, t) ==
    IF ValidationFails(doc) THEN [store |-> s, res |-> Throw(ValidationError)]
    ELSE LET saved == Spread(doc, [createdAt |-> t, updatedAt |-> t])
         IN  IF ~RouteIdIsFree(s, doc._id, doc.routeId)
             THEN [store |-> (doc._id :> saved) @@ s, res |-> Throw(DuplicateKeyError)]
             ELSE [store |-> (doc._id :> saved) @@ s, res |-> Return(saved)]

\* document.save() with { timestamps: true }
Save(s, doc, t) ==
    IF ValidationFails(doc) THEN [store |-> s, res |-> Throw(ValidationError)]
    ELSE IF ~RouteIdIsFree(s, doc._id, doc.routeId)
    THEN [store |-> s, res |-> Throw(DuplicateKeyError)]
    ELSE LET saved == Spread(doc, [createdAt |-> t, updatedAt |-> t])
         IN  [store |-> (doc._id :> saved) @@ s, res |-> Return(saved)]

\* Model.findById(id).exec()
FindById(s, id) ==
    IF ~IsObjectId(id) THEN Throw(CastError)
    ELSE IF id \in DOMAIN s THEN Return(s[id])
    ELSE Return(Null)

\* Model.findByIdAndUpdate(id, update, { new: true }).exec(): the update's
\* schema paths are $set, updatedAt is stamped, no upsert, no validators
FindByIdAndUpdate(s, id, update, t) ==
    IF ~IsObjectId(id) THEN [store |-> s, res |-> Throw(CastError)]
    ELSE IF id \notin DOMAIN s THEN [store |-> s, res |-> Return(Null)]
    ELSE LET set == Spread(Restrict(update, SchemaPaths \ {"_id"}), [updatedAt |-> t])
             doc == Spread(s[id], set)
         IN  IF ~RouteIdIsFree(s, id, doc.routeId)
             THEN [store |-> s, res |-> Throw(DuplicateKeyError)]
             ELSE [store |-> [s EXCEPT ![id] = doc], res |-> Return(doc)]

\* Model.findByIdAndDelete(id).exec()
FindByIdAndDelete(s, id) ==
    IF ~IsObjectId(id) THEN [store |-> s, res |-> Throw(CastError)]
    ELSE IF id \notin DOMAIN s THEN [store |-> s, res |-> Return(Null)]
    ELSE [store |-> [i \in (DOMAIN s) \ {id} |-> s[i]], res |-> Return(s[id])]

\* the orders .sort({ createdAt: -1 }) may give the documents `ids`:
\* newest first, documents of equal createdAt in any order
SortedByCreatedAtDesc(s, ids) ==
    { ord \in [1..Cardinality(ids) -> ids] :
        /\ \A i, j \in 1..Cardinality(ids) : i # j => ord[i] # ord[j]
        /\ \A i, j \in 1..Cardinality(ids) : i < j => s[ord[i]].createdAt >= s[ord[j]].createdAt }

\* cursor.skip(skip).limit(limit) over the ordered ids, as documents
SkipLimit(s, ord, skip, limit) ==
    [i \in 1..Max(0, Min(limit, Len(ord) - skip)) |-> s[ord[skip + i]]]

----------------------------------------------------------------------------
(* ApiResponse (common/api-response) *)

\* new ApiResponse(success, statusCode, message, data, errors)
ApiResponse_new(success, statusCode, message, data, errors) ==
    [ success |-> success,
      statusCode |-> statusCode,
      message |-> message,
      data |-> IF Truthy(data) THEN data ELSE Null,
      errors |-> errors ]

\* ApiResponse.success(data, message = 'Operation successful', statusCode = 200),
\* called with the arguments `args`
ApiResponse_success(args) ==
    ApiResponse_new(TRUE,
                    IF Len(args) >= 3 THEN args[3] ELSE HttpOK,
                    IF Len(args) >= 2 THEN args[2] ELSE "Operation successful",
                    args[1],
                    Undefined)

\* ApiResponse.error(message, errors?, statusCode = 400), called with `args`
ApiResponse_error(args) ==
    ApiResponse_new(FALSE,
                    IF Len(args) >= 3 THEN args[3] ELSE HttpBadRequest,
                    args[1],
                    Null,
                    IF Len(args) >= 2 THEN args[2] ELSE Undefined)

----------------------------------------------------------------------------
(* RoutesService (routes.service.ts) *)

S_RoutePrefix == <<"r","o","u","t","e","-">>

\* `route-${timestamp}-${uuid.substring(0, 8)}`
generateRouteId(t, uuid) ==
    S_RoutePrefix \o NumToString(t) \o <<"-">> \o Substring0(uuid, UuidPrefixLen)

\* create(createRouteDto): [store, res]
RoutesService_create(s, oid, t, dto, uuid) ==
    LET routeId == generateRouteId(t, uuid)
        routeData == Spread(dto, [routeId |-> routeId])
    IN  Save(s, NewDocument(routeData, oid), t)

\* const { limit = 10, page = 1 } = filters
FilterLimit(filters) == IF "limit" \in DOMAIN filters THEN filters.limit ELSE DefaultLimit
FilterPage(filters) == IF "page" \in DOMAIN filters THEN filters.page ELSE DefaultPage

\* mutant: the page is not counted from 1
SkipOf_PageTimesLimit(filters) == FilterPage(filters) * FilterLimit(filters)

\* const skip = (page - 1) * limit
SkipOf(filters) == (FilterPage(filters) - 1) * FilterLimit(filters)

\* findOne(id)
RoutesService_findOne(s, id) == FindById(s, id)

\* update(id, updateRouteDto): [store, res]
RoutesService_update(s, id, updateRouteDto, t) == FindByIdAndUpdate(s, id, updateRouteDto, t)

\* mutant: remove looks the route up and returns it without deleting it
RoutesService_remove_NoDelete(s, id) == [store |-> s, res |-> FindById(s, id)]

\* remove(id): [store, res]
RoutesService_remove(s, id) == FindByIdAndDelete(s, id)

\* the $or of the five $regex conditions of searchQuery
SearchQueryMatches(doc, searchText) ==
    \/ "routeId" \in DOMAIN doc /\ RegexTest(searchText, doc.routeId)
    \/ "name" \in DOMAIN doc /\ RegexTest(searchText, doc.name)
    \/ /\ "origin" \in DOMAIN doc
       /\ "name" \in DOMAIN doc.origin
       /\ RegexTest(searchText, doc.origin.name)
    \/ /\ "destination" \in DOMAIN doc
       /\ "name" \in DOMAIN doc.destination
       /\ RegexTest(searchText, doc.destination.name)
    \/ /\ "waypoints" \in DOMAIN doc
       /\ \E i \in 1..Len(doc.waypoints) :
            "name" \in DOMAIN doc.waypoints[i] /\ RegexTest(searchText, doc.waypoints[i].name)

SearchHits(s, searchText) == { id \in DOMAIN s : SearchQueryMatches(s[id], searchText) }

\* the documents the query of a list request matches: every document for
\* findAll, the hits of the $or for searchRoutes
Matching(s, kind, searchText) ==
    IF kind = "findAll" THEN DOMAIN s ELSE SearchHits(s, searchText)

\* countDocuments(query).exec(), answered on collection s
CountDocuments(s, kind, searchText) ==
    IF kind = "searchRoutes" /\ ~RegexCompiles(searchText) THEN Throw(RegexError)
    ELSE Return(Cardinality(Matching(s, kind, searchText)))

\* find(query).sort({ createdAt: -1 }).skip(skip).limit(limit).exec(),
\* answered on collection s in order `ord`: the store rejects a negative
\* skip when it parses the command, before it compiles the query
FindPage(s, kind, searchText, filters, ord) ==
    IF SkipOf(filters) < 0 THEN Throw(SkipError)
    ELSE IF kind = "searchRoutes" /\ ~RegexCompiles(searchText) THEN Throw(RegexError)
    ELSE Return(SkipLimit(s, ord, SkipOf(filters), FilterLimit(filters)))

\* mutant: total is taken from the page that was fetched
ListResult_TotalIsPageLength(count, fetch, first) ==
    LET a == IF first = "count" THEN count ELSE fetch
        b == IF first = "count" THEN fetch ELSE count
    IN  IF a.tag = "throw" THEN a
        ELSE IF b.tag = "throw" THEN b
        ELSE Return(ApiResponse_success(
                << [routes |-> fetch.value, total |-> Len(fetch.value)],
                   "Routes  retrieved successfully" >>))

\* const [routes, total] = await Promise.all([count, fetch]);
\* return ApiResponse.success({ routes, total }, 'Routes  retrieved successfully')
\* `first` names the query the store answered first: Promise.all rejects
\* with the rejection that comes first, without waiting for the other answer
ListResult(count, fetch, first) ==
    LET a == IF first = "count" THEN count ELSE fetch
        b == IF first = "count" THEN fetch ELSE count
    IN  IF a.tag = "throw" THEN a
        ELSE IF b.tag = "throw" THEN b
        ELSE Return(ApiResponse_success(
                << [routes |-> fetch.value, total |-> count.value],
                   "Routes  retrieved successfully" >>))

\* findAll(filters): the count answered on collection sCount, the fetch on
\* collection sFetch in order `ord`, the query `first` answered first
RoutesService_findAll(sCount, sFetch, first, filters, ord) ==
    ListResult(CountDocuments(sCount, "findAll", <<>>),
               FindPage(sFetch, "findAll", <<>>, filters, ord),
               first)

\* searchRoutes(searchText, filters): the same two queries, with searchQuery
RoutesService_searchRoutes(sCount, sFetch, first, searchText, filters, ord) ==
    ListResult(CountDocuments(sCount, "searchRoutes", searchText),
               FindPage(sFetch, "searchRoutes", searchText, filters, ord),
               first)

----------------------------------------------------------------------------
(* RoutesController (routes.controller.ts): the envelope each handler makes *)
(* of the service's outcome `out`                                           *)

NoRouteFound(id) == "No route found with ID: " \o id

\* POST /routes
RoutesController_create(out) ==
    IF out.tag = "throw"
    THEN ApiResponse_error(<<"Failed to create route", out.error.message, HttpBadRequest>>)
    ELSE ApiResponse_success(<<out.value, "Route created successfully", HttpCreated>>)

\* GET /routes/search
RoutesController_searchRoutes(out) ==
    IF out.tag = "throw"
    THEN ApiResponse_error(<<"Failed to search routes", out.error.message, HttpInternalServerError>>)
    ELSE ApiResponse_success(<<out.value, "Routes found successfully">>)

\* mutant: the handler leaves the status code of a failure to the default
RoutesController_findAll_DefaultStatus(out) ==
    IF out.tag = "throw"
    THEN ApiResponse_error(<<"Failed to fetch routes", out.error.message>>)
    ELSE ApiResponse_success(<<out.value, "Routes retrieved successfully">>)

\* GET /routes
RoutesController_findAll(out) ==
    IF out.tag = "throw"
    THEN ApiResponse_error(<<"Failed to fetch routes", out.error.message, HttpInternalServerError>>)
    ELSE ApiResponse_success(<<out.value, "Routes retrieved successfully">>)

\* GET /routes/:id
RoutesController_findOne(id, out) ==
    IF out.tag = "throw"
    THEN ApiResponse_error(<<"Failed to fetch route", out.error.message, HttpInternalServerError>>)
    ELSE IF ~Truthy(out.value)
    THEN ApiResponse_error(<<"Route not found", NoRouteFound(id), HttpNotFound>>)
    ELSE ApiResponse_success(<<out.value, "Route retrieved successfully">>)

\* PATCH /routes/:id
RoutesController_update(id, out) ==
    IF out.tag = "throw"
    THEN ApiResponse_error(<<"Failed to update route", out.error.message, HttpInternalServerError>>)
    ELSE IF ~Truthy(out.value)
    THEN ApiResponse_error(<<"Route not found", NoRouteFound(id), HttpNotFound>>)
    ELSE ApiResponse_success(<<out.value, "Route updated successfully">>)

\* DELETE /routes/:id
RoutesController_remove(id, out) ==
    IF out.tag = "throw"
    THEN ApiResponse_error(<<"Failed to delete route", out.error.message, HttpInternalServerError>>)
    ELSE IF ~Truthy(out.value)
    THEN ApiResponse_error(<<"Route not found", NoRouteFound(id), HttpNotFound>>)
    ELSE ApiResponse_success(<<out.value, "Route deleted successfully">>)

\* @MessagePattern('route.create')
RoutesController_createRoute(out) ==
    IF out.tag = "throw"
    THEN ApiResponse_error(<<"Failed to create route", out.error.message>>)
    ELSE ApiResponse_success(<<out.value, "Route created successfully">>)

\* @MessagePattern('route.findAll')
RoutesController_findAllRoutes(out) ==
    IF out.tag = "throw"
    THEN ApiResponse_error(<<"Failed to fetch routes", out.error.message>>)
    ELSE ApiResponse_success(<<out.value, "Routes retrieved successfully">>)

\* @MessagePattern('route.findOne')
RoutesController_findOneRoute(id, out) ==
    IF out.tag = "throw"
    THEN ApiResponse_error(<<"Failed to fetch route", out.error.message>>)
    ELSE IF ~Truthy(out.value)
    THEN ApiResponse_error(<<"Route not found", NoRouteFound(id), HttpNotFound>>)
    ELSE ApiResponse_success(<<out.value, "Route retrieved successfully">>)

\* mutant: the handler does not test the route for null
RoutesController_updateRoute_NoNullTest(id, out) ==
    IF out.tag = "throw"
    THEN ApiResponse_error(<<"Failed to update route", out.error.message>>)
    ELSE ApiResponse_success(<<out.value, "Route updated successfully">>)

\* @MessagePattern('route.update')
RoutesController_updateRoute(id, out) ==
    IF out.tag = "throw"
    THEN ApiResponse_error(<<"Failed to update route", out.error.message>>)
    ELSE IF ~Truthy(out.value)
    THEN ApiResponse_error(<<"Route not found", NoRouteFound(id), HttpNotFound>>)
    ELSE ApiResponse_success(<<out.value, "Route updated successfully">>)

\* mutant: the message handler words its success differently from DELETE /routes/:id
RoutesController_removeRoute_OtherMessage(id, out) ==
    IF out.tag = "throw"
    THEN ApiResponse_error(<<"Failed to delete route", out.error.message>>)
    ELSE IF ~Truthy(out.value)
    THEN ApiResponse_error(<<"Route not found", NoRouteFound(id), HttpNotFound>>)
    ELSE ApiResponse_success(<<out.value, "Route removed successfully">>)

\* @MessagePattern('route.remove')
RoutesController_removeRoute(id, out) ==
    IF out.tag = "throw"
    THEN ApiResponse_error(<<"Failed to delete route", out.error.message>>)
    ELSE IF ~Truthy(out.value)
    THEN ApiResponse_error(<<"Route not found", NoRouteFound(id), HttpNotFound>>)
    ELSE ApiResponse_success(<<out.value, "Route deleted successfully">>)

----------------------------------------------------------------------------
(* Requests *)

NoFilters == [f \in {} |-> 0]

\* the paging a list request may carry: none, or a limit and a page
\* (page 0 gives a negative skip)
Pagings ==
    {NoFilters} \cup { [limit |-> 1, page |-> p] : p \in 0..MaxCreates }
                \cup { [limit |-> MaxCreates, page |-> 1] }

\* the paging a search request may carry
SearchPagings ==
    { NoFilters, [limit |-> 1, page |-> 0], [limit |-> 1, page |-> 1], [limit |-> 1, page |-> 2] }

\* @Query('limit') limit = 10, @Query('page') page = 1; { limit: +limit, page: +page }
QueryFilters(q) == [limit |-> FilterLimit(q), page |-> FilterPage(q)]

----------------------------------------------------------------------------
(* The state machine.  A handler that makes one store call is one step, the *)
(* step at which the store applies the call: what the handler read before   *)
(* it awaited the store (the clock) is a value of an earlier instant.  A    *)
(* create draws the _id of its document when it builds it, before it awaits *)
(* save(): building the document is a step of its own, and the creates in   *)
(* flight are saved in any order.  A list handler makes two store calls,    *)
(* which the store answers at two steps, in either order, with the steps of *)
(* other requests between them: the handler's step is the second answer,    *)
(* and the first answer is a step of its own that keeps the collection it   *)
(* was read from.  Any number of requests are in flight at a time.  The     *)
(* arguments of a request do not depend on the state and are drawn at the   *)
(* handler's step.                                                          *)

Init ==
    /\ store = [i \in {} |-> Null]
    /\ now = 0
    /\ nextOid = 1
    /\ creating = [i \in {} |-> 0]
    /\ listing = EmptyBag
    /\ last = [op |-> "none"]
    /\ resp = Null
    /\ live = {}
    /\ removed = {}
    /\ racing = Null

\* no answered request is waiting to be looked at
Idle == last.op = "none"

\* time passes
Tick ==
    /\ Idle
    /\ now < MaxTime
    /\ now' = now + 1
    /\ UNCHANGED <<store, nextOid, creating, listing, last, resp, live, removed, racing>>

\* the values of the clock an update request in flight may have read: the
\* request arrived, and read the clock, at some instant up to now
ClockReads == 0..now

\* a create request arrives, over HTTP or as a message: the service reads
\* the clock for the routeId and builds the document, which draws the next
\* ObjectId of the driver as its _id; then it awaits save()
NewRoute ==
    /\ Idle
    /\ nextOid <= MaxCreates
    /\ creating' = (OidPool[nextOid] :> now) @@ creating
    /\ nextOid' = nextOid + 1
    /\ UNCHANGED <<store, now, listing, last, resp, live, removed, racing>>

\* the store applies the save of a create request in flight, the one whose
\* document has the _id oid, and the handler makes its envelope.  The
\* service read the clock at creating[oid], when it built the document
DoCreate(via, dto, uuid, oid) ==
    /\ Idle
    /\ oid \in DOMAIN creating
    /\ LET t == creating[oid]
           r == RoutesService_create(store, oid, t, dto, uuid)
       IN  /\ store' = r.store
           /\ last' = [op |-> "create", via |-> via, dto |-> dto, oid |-> oid, t |-> t,
                       pre |-> store, res |-> r.res]
           /\ resp' = IF via = "http" THEN RoutesController_create(r.res)
                      ELSE RoutesController_createRoute(r.res)
           /\ live' = IF r.res.tag = "return" THEN live \cup {r.res.value._id} ELSE live
    /\ creating' = [o \in (DOMAIN creating) \ {oid} |-> creating[o]]
    /\ UNCHANGED <<now, nextOid, listing, removed, racing>>

HttpCreate ==
    \E dto \in CreateDtos, uuid \in Uuids, oid \in DOMAIN creating :
        DoCreate("http", dto, uuid, oid)
MsgCreateRoute ==
    \E dto \in CreateDtos, uuid \in Uuids, oid \in DOMAIN creating :
        DoCreate("msg", dto, uuid, oid)

\* a list request in flight whose first answer is in: which query the store
\* answered first, and the collection it answered it on
Listing(first, at) == [first |-> first, at |-> at]

\* the store answers the query of a list request that it answers first,
\* the count or the fetch, on the collection as it is now: the request stays
\* in flight, and the collection its first answer was read from is kept
ListFirstAnswer ==
    /\ Idle
    /\ BagCardinality(listing) < MaxLists
    /\ \E first \in {"count", "fetch"} :
        listing' = listing (+) SetToBag({Listing(first, store)})
    /\ UNCHANGED <<store, now, nextOid, creating, last, resp, live, removed, racing>>

\* the collection the count query of the list request l is answered on, and
\* the one its fetch query is answered on: the query answered first was
\* answered on l.at, the other is answered now
CountedAt(l) == IF l.first = "count" THEN l.at ELSE store
FetchedAt(l) == IF l.first = "fetch" THEN l.at ELSE store

\* the list request l is answered: the store answers its other query on the
\* collection as it is now, Promise.all settles, the service returns `out`
\* or throws it, and the handler makes its envelope
DoList(l, op, via, searchText, filters, out, envelope) ==
    /\ last' = [op |-> op, via |-> via, searchText |-> searchText, filters |-> filters,
                first |-> l.first, countAt |-> CountedAt(l), fetchAt |-> FetchedAt(l),
                res |-> out]
    /\ resp' = envelope
    /\ listing' = listing (-) SetToBag({l})
    /\ UNCHANGED <<store, now, nextOid, creating, live, removed, racing>>

\* GET /routes
HttpFindAll ==
    /\ Idle
    /\ \E l \in BagToSet(listing), q \in Pagings :
        \E ord \in SortedByCreatedAtDesc(FetchedAt(l), DOMAIN FetchedAt(l)) :
            LET filters == QueryFilters(q)
                out == RoutesService_findAll(CountedAt(l), FetchedAt(l), l.first, filters, ord)
            IN  DoList(l, "findAll", "http", <<>>, filters, out, RoutesController_findAll(out))

\* route.findAll
MsgFindAllRoutes ==
    /\ Idle
    /\ \E l \in BagToSet(listing), data \in Pagings :
        \E ord \in SortedByCreatedAtDesc(FetchedAt(l), DOMAIN FetchedAt(l)) :
            LET out == RoutesService_findAll(CountedAt(l), FetchedAt(l), l.first, data, ord)
            IN  DoList(l, "findAll", "msg", <<>>, data, out, RoutesController_findAllRoutes(out))

\* GET /routes/search
HttpSearchRoutes ==
    /\ Idle
    /\ \E l \in BagToSet(listing), searchText \in SearchTexts, q \in SearchPagings :
        \E ord \in SortedByCreatedAtDesc(FetchedAt(l), SearchHits(FetchedAt(l), searchText)) :
            LET filters == QueryFilters(q)
                out == RoutesService_searchRoutes(CountedAt(l), FetchedAt(l), l.first,
                                                  searchText, filters, ord)
            IN  DoList(l, "searchRoutes", "http", searchText, filters, out,
                       RoutesController_searchRoutes(out))

DoFindOne(via, id) ==
    /\ Idle
    /\ LET out == RoutesService_findOne(store, id)
       IN  /\ last' = [op |-> "findOne", via |-> via, id |-> id, res |-> out]
           /\ resp' = IF via = "http" THEN RoutesController_findOne(id, out)
                      ELSE RoutesController_findOneRoute(id, out)
           /\ UNCHANGED <<store, now, nextOid, creating, listing, live, removed, racing>>

HttpFindOne == \E id \in RequestIds : DoFindOne("http", id)
MsgFindOneRoute == \E id \in RequestIds : DoFindOne("msg", id)

\* an update request: the store applies its findByIdAndUpdate.  The clock
\* was read at t (updatedAt), when the query was built, before the await.
\* (Whether the request is one of the pair followed in `racing` is for the
\* action that serves it to say.)
DoUpdate(via, id, dto, t) ==
    /\ Idle
    /\ LET r == RoutesService_update(store, id, dto, t)
       IN  /\ store' = r.store
           /\ last' = [op |-> "update", via |-> via, id |-> id, dto |-> dto, t |-> t,
                       pre |-> store, res |-> r.res]
           /\ resp' = IF via = "http" THEN RoutesController_update(id, r.res)
                      ELSE RoutesController_updateRoute(id, r.res)
           /\ UNCHANGED <<now, nextOid, creating, listing, live, removed>>

HttpUpdate ==
    /\ \E id \in RequestIds, dto \in UpdateDtos, t \in ClockReads : DoUpdate("http", id, dto, t)
    /\ UNCHANGED racing
MsgUpdateRoute ==
    /\ \E id \in RequestIds, dto \in UpdateDtos, t \in ClockReads : DoUpdate("msg", id, dto, t)
    /\ UNCHANGED racing

DoRemove(via, id) ==
    /\ Idle
    /\ LET r == RoutesService_remove(store, id)
       IN  /\ store' = r.store
           /\ last' = [op |-> "remove", via |-> via, id |-> id, pre |-> store, res |-> r.res]
           /\ resp' = IF via = "http" THEN RoutesController_remove(id, r.res)
                      ELSE RoutesController_removeRoute(id, r.res)
           /\ live' = IF r.res.tag = "return" /\ Truthy(r.res.value)
                      THEN live \ {r.res.value._id} ELSE live
           /\ removed' = IF r.res.tag = "return" /\ Truthy(r.res.value)
                         THEN removed \cup {r.res.value._id} ELSE removed
           /\ UNCHANGED <<now, nextOid, creating, listing>>

HttpRemove ==
    /\ \E id \in RequestIds : DoRemove("http", id)
    /\ UNCHANGED racing
MsgRemoveRoute ==
    /\ \E id \in RequestIds : DoRemove("msg", id)
    /\ UNCHANGED racing

\* the handler's promise resolves: the envelope goes out to the caller
Respond ==
    /\ ~Idle
    /\ last' = [op |-> "none"]
    /\ resp' = Null
    /\ UNCHANGED <<store, now, nextOid, creating, listing, live, removed, racing>>

Next ==
    \/ Tick
    \/ Respond
    \/ NewRoute
    \/ HttpCreate
    \/ HttpSearchRoutes
    \/ HttpFindAll
    \/ HttpFindOne
    \/ HttpUpdate
    \/ HttpRemove
    \/ MsgCreateRoute
    \/ MsgFindAllRoutes
    \/ MsgFindOneRoute
    \/ MsgUpdateRoute
    \/ MsgRemoveRoute
    \/ ListFirstAnswer

Spec == Init /\ [][Next]_vars

----------------------------------------------------------------------------
(* The requests that carry a path: creates with a path, with an empty path  *)
(* and with none, and updates that set the path to the empty sequence       *)

DtoEmptyPath == [DtoA EXCEPT !.path = <<>>]
DtoNoPath == [f \in (DOMAIN DtoA) \ {"path"} |-> DtoA[f]]

PathCreateDtos == {DtoA, DtoEmptyPath, DtoNoPath}

PathUpdateDtos ==
    { [path |-> <<>>],
      [path |-> <<DtoA.origin, DtoA.destination>>] }

\* POST /routes (no ValidationPipe is installed: the body reaches the service
\* as it was sent)
PathCreate ==
    \E dto \in PathCreateDtos, uuid \in Uuids, oid \in DOMAIN creating :
        DoCreate("http", dto, uuid, oid)

\* PATCH /routes/:id
PathUpdate ==
    /\ \E id \in RequestIds, dto \in PathUpdateDtos, t \in ClockReads :
        DoUpdate("http", id, dto, t)
    /\ UNCHANGED racing

NextPath ==
    \/ Tick
    \/ Respond
    \/ NewRoute
    \/ PathCreate
    \/ PathUpdate
    \/ HttpFindOne
    \/ HttpRemove

SpecPath == Init /\ [][NextPath]_vars

----------------------------------------------------------------------------
(* Two requests in flight on the same stored route, of two clients: each    *)
(* makes one store call, findByIdAndDelete or findByIdAndUpdate, and the    *)
(* store applies the two calls in either order.  Each request is served as  *)
(* any request is, at the step at which the store applies its call; the     *)
(* clock moves and the requests of other clients (creates, reads, updates   *)
(* and removes, of this route and of others) are served before, between and *)
(* after the two.  The list requests, which write nothing and read nothing  *)
(* of the pair, are served as in Spec and are left out here                 *)

\* a request of the pair: its kind and its payload; once the store has
\* applied its call, the clock the request had read (an update), whether
\* its call was the first of the two to be applied, the collection before
\* and after the call, and the outcome
RaceRequest(kind, dto) ==
    [kind |-> kind, dto |-> dto, t |-> Null, first |-> Null,
     pre |-> Null, post |-> Null, res |-> Null]

\* the other request of the pair
RaceOther(k) == IF k = "a" THEN "b" ELSE "a"

\* the store has applied the call of request k of the pair
RaceApplied(k) == racing[k].res # Null

\* both requests of the pair have their outcome
RaceDone == racing # Null /\ RaceApplied("a") /\ RaceApplied("b")

\* DELETE /routes/:id twice, by two clients: both requests are in flight
RaceRemoveRemove ==
    /\ Idle
    /\ racing = Null \/ RaceDone
    /\ \E id \in DOMAIN store :
        racing' = [id |-> id, a |-> RaceRequest("remove", Null),
                              b |-> RaceRequest("remove", Null)]
    /\ UNCHANGED <<store, now, nextOid, creating, listing, last, resp, live, removed>>

\* PATCH /routes/:id by one client and DELETE /routes/:id by another: both
\* requests are in flight
RaceUpdateRemove ==
    /\ Idle
    /\ racing = Null \/ RaceDone
    /\ \E id \in DOMAIN store, dto \in UpdateDtos :
        racing' = [id |-> id, a |-> RaceRequest("update", dto),
                              b |-> RaceRequest("remove", Null)]
    /\ UNCHANGED <<store, now, nextOid, creating, listing, last, resp, live, removed>>

\* the store applies the call of request k of the pair, and the handler of
\* the request makes its envelope
RaceStep(k) ==
    /\ racing # Null
    /\ ~RaceApplied(k)
    /\ IF racing[k].kind = "remove"
       THEN /\ DoRemove("http", racing.id)
            /\ racing' = [racing EXCEPT ![k].first = [is |-> ~RaceApplied(RaceOther(k))],
                                        ![k].pre = store,
                                        ![k].post = RoutesService_remove(store, racing.id).store,
                                        ![k].res = RoutesService_remove(store, racing.id).res]
       ELSE \E t \in ClockReads :
            LET r == RoutesService_update(store, racing.id, racing[k].dto, t)
            IN  /\ DoUpdate("http", racing.id, racing[k].dto, t)
                /\ racing' = [racing EXCEPT ![k].t = [at |-> t],
                                            ![k].first = [is |-> ~RaceApplied(RaceOther(k))],
                                            ![k].pre = store,
                                            ![k].post = r.store, ![k].res = r.res]

RaceStepA == RaceStep("a")
RaceStepB == RaceStep("b")

NextRace ==
    \/ Tick
    \/ Respond
    \/ NewRoute
    \/ HttpCreate
    \/ HttpFindOne
    \/ HttpUpdate
    \/ HttpRemove
    \/ MsgCreateRoute
    \/ MsgFindOneRoute
    \/ MsgUpdateRoute
    \/ MsgRemoveRoute
    \/ RaceRemoveRemove
    \/ RaceUpdateRemove
    \/ RaceStepA
    \/ RaceStepB

SpecRace == Init /\ [][NextRace]_vars

----------------------------------------------------------------------------
(* Properties *)

\* the fields of a route that update must leave alone when the payload
\* does not carry them
RouteFields ==
    { "name", "travelMode", "distance", "duration", "origin", "destination",
      "waypoints", "path", "userId", "routeId" }

\* field f is the same, or absent, in documents d1 and d2
SameField(d1, d2, f) ==
    /\ (f \in DOMAIN d1) <=> (f \in DOMAIN d2)
    /\ f \in DOMAIN d1 => d1[f] = d2[f]

\* every document of s1 other than `id` is in s2 as it is in s1, and s2
\* holds no document that s1 does not
OthersUnchanged(s1, s2, id) ==
    /\ (DOMAIN s2) \ {id} = (DOMAIN s1) \ {id}
    /\ \A o \in (DOMAIN s1) \ {id} : s2[o] = s1[o]

\* C1: findOne(id) returns the stored route exactly when id was returned by
\* an earlier create and has not been removed since; for every other id
\* (never created) it returns null and does not throw.
C1_FindOneReturnsLiveRouteOrNull ==
    last.op = "findOne" =>
        IF last.id \in live
        THEN last.id \in DOMAIN store /\ last.res = Return(store[last.id])
        ELSE last.res = Return(Null)

\* C1 for the ids that are ObjectIds: the stored route when live, null otherwise
C1_OnObjectIds ==
    last.op = "findOne" /\ IsObjectId(last.id) =>
        IF last.id \in live
        THEN last.id \in DOMAIN store /\ last.res = Return(store[last.id])
        ELSE last.res = Return(Null)

\* C2: remove(id) of an existing route returns the removed entity and deletes
\* it, so that a later findOne(id) returns null; remove(id) of an id already
\* removed returns null (no error); either way every other route stays as it was.
C2_RemoveDeletesOnceThenNotFound ==
    /\ last.op = "remove" /\ last.id \in DOMAIN last.pre =>
          /\ last.res = Return(last.pre[last.id])
          /\ last.id \notin DOMAIN store
          /\ OthersUnchanged(last.pre, store, last.id)
    /\ last.op = "remove" /\ last.id \in removed /\ last.id \notin DOMAIN last.pre =>
          /\ last.res = Return(Null)
          /\ store = last.pre
    /\ last.op = "findOne" /\ last.id \in removed => last.res = Return(Null)

\* C2 witness: a second remove of a removed id answered null while another
\* route is stored
C2_Witness ==
    /\ last.op = "remove"
    /\ last.id \in removed
    /\ last.id \notin DOMAIN last.pre
    /\ last.res = Return(Null)
    /\ DOMAIN store # {}

\* C3: update(id, partial) of an existing route changes only the fields the
\* partial carries (they take the partial's values when the update returns),
\* every other field of the route and every other route stay as they were;
\* update of an id with no matching record returns null and creates no record.
C3_UpdateChangesOnlyGivenFields ==
    last.op = "update" =>
        IF last.id \in DOMAIN last.pre
        THEN /\ last.id \in DOMAIN store
             /\ OthersUnchanged(last.pre, store, last.id)
             /\ \A f \in RouteFields \ DOMAIN last.dto :
                    SameField(last.pre[last.id], store[last.id], f)
             /\ last.res.tag = "return" =>
                    /\ last.res.value = store[last.id]
                    /\ \A f \in DOMAIN last.dto : store[last.id][f] = last.dto[f]
        ELSE /\ last.res = Return(Null)
             /\ store = last.pre

\* C3 for the ids that are ObjectIds
C3_OnObjectIds ==
    last.op = "update" /\ IsObjectId(last.id) => C3_UpdateChangesOnlyGivenFields

\* C4: no two stored routes have the same routeId.
C4_RouteIdUnique ==
    \A i, j \in DOMAIN store : i # j => store[i].routeId # store[j].routeId

\* C4 witness: a create whose generated routeId equals a stored route's
\* was made, and rejected
C4_Witness ==
    /\ last.op = "create"
    /\ \E o \in DOMAIN last.pre :
          \E uuid \in Uuids : last.pre[o].routeId = generateRouteId(last.t, uuid)
    /\ last.res = Throw(DuplicateKeyError)

\* C5: an update, whatever its payload, leaves the routeId of the route as
\* it was.
C5_UpdateKeepsRouteId ==
    last.op = "update" /\ last.id \in DOMAIN last.pre /\ last.id \in DOMAIN store =>
        store[last.id].routeId = last.pre[last.id].routeId

\* the two queries of the answered list request were answered on the same
\* collection: no write took effect between them
NoWriteBetween == last.countAt = last.fetchAt

\* C6: with no concurrent writes, findAll(page, limit) with page >= 1 and
\* limit >= 1 (1 and 10 when omitted) returns at most limit routes, those at
\* positions (page-1)*limit .. (page-1)*limit + limit - 1 of the collection
\* ordered by createdAt descending, and total is the size of the whole
\* collection.
C6_FindAllReturnsThePage ==
    last.op = "findAll" =>
        LET page == IF "page" \in DOMAIN last.filters THEN last.filters.page ELSE 1
            limit == IF "limit" \in DOMAIN last.filters THEN last.filters.limit ELSE 10
            first == (page - 1) * limit
        IN  page >= 1 /\ limit >= 1 =>
              /\ last.res.tag = "return"
              /\ NoWriteBetween =>
                  LET coll == last.fetchAt
                      n == Cardinality(DOMAIN coll)
                  IN  /\ last.res.value.data.total = n
                      /\ Len(last.res.value.data.routes) <= limit
                      /\ Len(last.res.value.data.routes) = Max(0, Min(limit, n - first))
                      /\ \E ord \in [1..n -> DOMAIN coll] :
                            /\ \A i, j \in 1..n : i # j => ord[i] # ord[j]
                            /\ \A i, j \in 1..n :
                                  i < j => coll[ord[i]].createdAt >= coll[ord[j]].createdAt
                            /\ \A i \in 1..Len(last.res.value.data.routes) :
                                  last.res.value.data.routes[i] = coll[ord[first + i]]

\* C6 witness: the second page of one route, of a collection of two that no
\* write changed between the two queries
C6_Witness ==
    /\ last.op = "findAll"
    /\ last.filters = [limit |-> 1, page |-> 2]
    /\ last.res.tag = "return"
    /\ NoWriteBetween
    /\ Cardinality(DOMAIN last.fetchAt) = 2
    /\ Len(last.res.value.data.routes) = 1

\* some searched field of the route contains the text, ignoring case
SomeFieldContains(doc, text) ==
    \/ ContainsIgnoreCase(doc.routeId, text)
    \/ ContainsIgnoreCase(doc.name, text)
    \/ "name" \in DOMAIN doc.origin /\ ContainsIgnoreCase(doc.origin.name, text)
    \/ "name" \in DOMAIN doc.destination /\ ContainsIgnoreCase(doc.destination.name, text)
    \/ \E i \in 1..Len(doc.waypoints) :
          "name" \in DOMAIN doc.waypoints[i] /\ ContainsIgnoreCase(doc.waypoints[i].name, text)

\* C7: what searchRoutes returns are routes of which some searched field
\* contains searchText as a case-insensitive substring, and total is the
\* number of all such routes.
C7_SearchReturnsSubstringMatches ==
    last.op = "searchRoutes" /\ last.res.tag = "return" /\ NoWriteBetween =>
        LET coll == last.fetchAt
            hits == { id \in DOMAIN coll : SomeFieldContains(coll[id], last.searchText) }
        IN  /\ last.res.value.data.total = Cardinality(hits)
            /\ \A i \in 1..Len(last.res.value.data.routes) :
                  last.res.value.data.routes[i]._id \in hits

\* C8: when findOne, update or remove returns null, the handler (HTTP or
\* message pattern) answers success = false, statusCode = 404, message
\* "Route not found", data = null.
C8_NotFoundEnvelope ==
    last.op \in {"findOne", "update", "remove"} /\ last.res = Return(Null) =>
        /\ resp.success = FALSE
        /\ resp.statusCode = 404
        /\ resp.message = "Route not found"
        /\ resp.data = Null

\* C8 witness: the message-pattern update handler got null from the service
C8_Witness ==
    /\ last.op = "update"
    /\ last.via = "msg"
    /\ last.res = Return(Null)

\* C9 as stated: a failure thrown by the service becomes an envelope with
\* success = false, the failure's message in errors, statusCode 400 for
\* create and 500 for every other operation.
C9_FailureEnvelope400Or500 ==
    last.op # "none" /\ last.res.tag = "throw" =>
        /\ resp.success = FALSE
        /\ resp.errors = last.res.error.message
        /\ resp.statusCode = IF last.op = "create" THEN 400 ELSE 500

\* C9 amended: a failure thrown by the service becomes an envelope with
\* success = false and the failure's message in errors; statusCode is 400
\* for create, 500 for the HTTP handlers of the other operations, and 400
\* (the default of ApiResponse.error) for their message-pattern handlers.
C9_FailureEnvelopeByTransport ==
    last.op # "none" /\ last.res.tag = "throw" =>
        /\ resp.success = FALSE
        /\ resp.errors = last.res.error.message
        /\ resp.statusCode = IF last.op = "create" THEN 400
                             ELSE IF last.via = "http" THEN 500
                             ELSE 400

\* C9 witness: the message-pattern findAll handler caught a failure
C9_Witness ==
    /\ last.op = "findAll"
    /\ last.via = "msg"
    /\ last.res.tag = "throw"
    /\ resp.success = FALSE

\* C10: a successful GET /routes answers success = true, statusCode = 200
\* and a data that is the object {routes, total} itself.
C10_ListDataIsRoutesAndTotal ==
    last.op = "findAll" /\ last.via = "http" /\ last.res.tag = "return" =>
        /\ resp.success = TRUE
        /\ resp.statusCode = 200
        /\ DOMAIN resp.data = {"routes", "total"}

\* two envelopes agree in everything but statusCode
SameButStatusCode(a, b) ==
    /\ a.success = b.success
    /\ a.message = b.message
    /\ a.data = b.data
    /\ a.errors = b.errors

\* C11: for create, findAll, findOne, update and remove, the HTTP handler and
\* the message-pattern handler, given the same input on the same store, make
\* envelopes with the same success, message, data and errors (statusCode
\* aside), and a handled write leaves the store as the one service method both
\* transports call leaves it
C11_TransportsAgree ==
    /\ Idle =>
        /\ \A dto \in CreateDtos, uuid \in Uuids, oid \in ObjectIds, t \in ClockReads :
            LET out == RoutesService_create(store, oid, t, dto, uuid).res
            IN  SameButStatusCode(RoutesController_create(out), RoutesController_createRoute(out))
        /\ \A q \in Pagings, ord \in SortedByCreatedAtDesc(store, DOMAIN store),
              first \in {"count", "fetch"} :
            SameButStatusCode(
                RoutesController_findAll(
                    RoutesService_findAll(store, store, first, QueryFilters(q), ord)),
                RoutesController_findAllRoutes(
                    RoutesService_findAll(store, store, first, q, ord)))
        /\ \A id \in RequestIds :
            /\ SameButStatusCode(RoutesController_findOne(id, RoutesService_findOne(store, id)),
                                 RoutesController_findOneRoute(id, RoutesService_findOne(store, id)))
            /\ SameButStatusCode(RoutesController_remove(id, RoutesService_remove(store, id).res),
                                 RoutesController_removeRoute(id, RoutesService_remove(store, id).res))
            /\ \A dto \in UpdateDtos, t \in ClockReads :
                SameButStatusCode(RoutesController_update(id, RoutesService_update(store, id, dto, t).res),
                                  RoutesController_updateRoute(id, RoutesService_update(store, id, dto, t).res))
    /\ last.op = "create" =>
        \E uuid \in Uuids :
            store = RoutesService_create(last.pre, last.oid, last.t, last.dto, uuid).store
    /\ last.op = "update" => store = RoutesService_update(last.pre, last.id, last.dto, last.t).store
    /\ last.op = "findAll" =>
        \E ord \in SortedByCreatedAtDesc(last.fetchAt, DOMAIN last.fetchAt) :
            /\ last.res = RoutesService_findAll(last.countAt, last.fetchAt, last.first,
                                                last.filters, ord)
            /\ SameButStatusCode(RoutesController_findAll(last.res),
                                 RoutesController_findAllRoutes(last.res))
    /\ last.op = "remove" => store = RoutesService_remove(last.pre, last.id).store

\* a message-pattern create has stored a route and answered 200 where POST
\* /routes answers 201 with the same message and data
C11_Witness ==
    /\ last.op = "create"
    /\ last.via = "msg"
    /\ last.res.tag = "return"
    /\ store # last.pre
    /\ resp.statusCode = HttpOK
    /\ RoutesController_create(last.res).statusCode = HttpCreated
    /\ SameButStatusCode(resp, RoutesController_create(last.res))

\* C12: a create whose generated routeId is that of a stored route fails with
\* the store's duplicate-key error, and every create that fails (duplicate or
\* validation) hands the store's error on as it is and leaves the collection
\* exactly as it was before the call
C12_FailedCreateLeavesCollection ==
    last.op = "create" =>
        LET collides == \E o \in DOMAIN last.pre :
                            \E uuid \in Uuids : last.pre[o].routeId = generateRouteId(last.t, uuid)
            doc == NewDocument(Spread(last.dto, [routeId |-> generateRouteId(last.t, UuidA)]),
                               last.oid)
        IN  /\ collides => last.res.tag = "throw"
            /\ (collides /\ ~ValidationFails(doc)) => last.res = Throw(DuplicateKeyError)
            /\ last.res.tag = "throw" =>
                  /\ last.res.error \in {ValidationError, DuplicateKeyError}
                  /\ store = last.pre
                  /\ resp.success = FALSE
                  /\ resp.errors = last.res.error.message

\* a create has collided with the routeId of a stored route: it failed, and
\* the collection of one route is as it was
C12_Witness ==
    /\ last.op = "create"
    /\ last.pre # [i \in {} |-> Null]
    /\ \E o \in DOMAIN last.pre :
          \E uuid \in Uuids : last.pre[o].routeId = generateRouteId(last.t, uuid)
    /\ last.res.tag = "throw"
    /\ last.res.error = DuplicateKeyError
    /\ store = last.pre
    /\ resp.success = FALSE

\* C13: every stored route has a non-empty path, whatever creates and updates
\* (an update setting path to the empty sequence included) have been served
C13_StoredPathNonEmpty ==
    \A id \in DOMAIN store : Len(store[id].path) > 0

\* the part of C13 that holds: an update that carries no path leaves the
\* path of the route as it was
C13_UpdateWithoutPathKeepsPath ==
    (last.op = "update" /\ last.res.tag = "return" /\ Truthy(last.res.value)
        /\ "path" \notin DOMAIN last.dto)
      => store[last.id].path = last.pre[last.id].path

\* a list request served as two store operations has been answered with a page
ListAnswered ==
    /\ last.op \in {"findAll", "searchRoutes"}
    /\ last.res.tag = "return"

\* C14 as claimed: whatever creates and removes of other clients take effect
\* between the count query and the fetch query, the response has
\* length(routes) <= total, and total is the size of the (matching)
\* collection at the instant at which routes was read
C14_ListIsOneSnapshot ==
    ListAnswered =>
        /\ Len(resp.data.data.routes) <= resp.data.data.total
        /\ resp.data.data.total =
              Cardinality(Matching(last.fetchAt, last.op, last.searchText))

\* C14, amended: total is the size of the (matching) collection at the
\* instant of the count query, routes is the page of the (matching)
\* collection at the instant of the fetch query and has at most limit
\* entries; length(routes) <= total, and total being the size at the instant
\* routes was read, hold when the same routes match at both instants (as
\* when no create, update or remove takes effect between the two queries)
C14_ListReadsTwoInstants ==
    ListAnswered =>
        LET d == resp.data.data
            atCount == Matching(last.countAt, last.op, last.searchText)
            atFetch == Matching(last.fetchAt, last.op, last.searchText)
        IN  /\ d.total = Cardinality(atCount)
            /\ \E ord \in SortedByCreatedAtDesc(last.fetchAt, atFetch) :
                  d.routes = SkipLimit(last.fetchAt, ord, SkipOf(last.filters),
                                       FilterLimit(last.filters))
            /\ Len(d.routes) <= FilterLimit(last.filters)
            /\ atCount = atFetch =>
                  /\ Len(d.routes) <= d.total
                  /\ d.total = Cardinality(atFetch)

\* a list request has been answered between whose two queries a write took
\* effect that changed which routes match, with more routes on the page than
\* total says there are
C14_Witness ==
    /\ ListAnswered
    /\ Matching(last.countAt, last.op, last.searchText)
          # Matching(last.fetchAt, last.op, last.searchText)
    /\ Len(resp.data.data.routes) > resp.data.data.total

\* the outcome is a returned route
ReturnsEntity(res) == res.tag = "return" /\ Truthy(res.value)

\* the store call of request k of the pair, once applied, left every route
\* other than the one it addresses as it was
RaceLeftOthers(k) ==
    RaceApplied(k) => OthersUnchanged(racing[k].pre, racing[k].post, racing.id)

\* request k of the pair returned the route as the store held it when the
\* call was applied
ReturnedStored(k) ==
    /\ racing.id \in DOMAIN racing[k].pre
    /\ racing[k].res = Return(racing[k].pre[racing.id])

\* the update of the pair returned the route with the payload applied to it
ReturnedUpdated ==
    /\ ReturnsEntity(racing.a.res)
    /\ racing.a.res = RoutesService_update(racing.a.pre, racing.id, racing.a.dto,
                                           racing.a.t.at).res

\* the route is stored when the first call of the pair is applied and, if
\* that call leaves it stored, when the second is: no request outside the
\* pair has removed it while the pair was in flight
RaceUndisturbed ==
    \A k \in {"a", "b"} :
        /\ racing[k].first.is => racing.id \in DOMAIN racing[k].pre
        /\ (~racing[k].first.is /\ racing.id \in DOMAIN racing[RaceOther(k)].post)
              => racing.id \in DOMAIN racing[k].pre

\* C15: of two concurrent remove(id) on a stored route exactly one returns
\* the removed entity and the other the not-found sentinel; an update(id,
\* partial) racing with remove(id) returns the updated entity (and the remove
\* then returns the route and deletes it) or the not-found sentinel; once the
\* remove is applied the route is absent, in every order, and is never
\* re-created; no store call of the two touches another route.  (The two
\* requests are the ones that target the route: the outcomes are those of a
\* pair that no third request removes the route from under.)
C15_AtomicPerDocument ==
    racing # Null =>
        /\ (\E k \in {"a", "b"} : racing[k].kind = "remove" /\ RaceApplied(k))
              => racing.id \notin DOMAIN store
        /\ RaceLeftOthers("a") /\ RaceLeftOthers("b")
        /\ (RaceDone /\ RaceUndisturbed) =>
            /\ racing.a.kind = "remove" =>
                \/ ReturnedStored("a") /\ racing.b.res = Return(Null)
                \/ racing.a.res = Return(Null) /\ ReturnedStored("b")
            /\ racing.a.kind = "update" =>
                \/ ReturnedUpdated /\ ReturnedStored("b")
                \/ racing.a.res = Return(Null) /\ ReturnedStored("b")

\* the outcome of the call of request k of the pair is the one the store
\* gives on the collection the call is applied to: the route it holds
\* (removed, or with the payload applied), the not-found sentinel when it
\* holds none, or the unique index's rejection of the payload's routeId
RaceOutcomeIsTheStores(k) ==
    IF racing.id \notin DOMAIN racing[k].pre
    THEN racing[k].res = Return(Null) /\ racing[k].post = racing[k].pre
    ELSE IF racing[k].kind = "remove"
    THEN ReturnedStored(k) /\ racing.id \notin DOMAIN racing[k].post
    ELSE \/ /\ ReturnedUpdated
            /\ racing.a.post = (racing.id :> racing.a.res.value) @@ racing.a.pre
         \/ /\ racing.a.res = Throw(DuplicateKeyError)
            /\ "routeId" \in DOMAIN racing.a.dto
            /\ \E o \in (DOMAIN racing.a.pre) \ {racing.id} :
                    racing.a.pre[o].routeId = racing.a.dto.routeId
            /\ racing.a.post = racing.a.pre

\* what holds of the pair: the same, with the third outcome an update has
\* when its payload carries the routeId of another stored route, the
\* unique index's rejection, which leaves the route to the remove as it was;
\* and, whatever the requests outside the pair do, each call of the pair has
\* the outcome the store gives on the collection it is applied to
C15_AtomicOrRejectedByIndex ==
    racing # Null =>
        /\ (\E k \in {"a", "b"} : racing[k].kind = "remove" /\ RaceApplied(k))
              => racing.id \notin DOMAIN store
        /\ RaceLeftOthers("a") /\ RaceLeftOthers("b")
        /\ \A k \in {"a", "b"} : RaceApplied(k) => RaceOutcomeIsTheStores(k)
        /\ (RaceDone /\ RaceUndisturbed) =>
            /\ racing.a.kind = "remove" =>
                \/ ReturnedStored("a") /\ racing.b.res = Return(Null)
                \/ racing.a.res = Return(Null) /\ ReturnedStored("b")
            /\ racing.a.kind = "update" =>
                \/ ReturnedUpdated /\ ReturnedStored("b")
                \/ racing.a.res = Return(Null) /\ ReturnedStored("b")
                \/ /\ racing.a.res = Throw(DuplicateKeyError)
                   /\ ReturnedStored("b")

\* a pair of removes has been served from under which the remove of a third
\* client took the route: both requests of the pair got the sentinel
C15_RaceDisturbed ==
    /\ RaceDone
    /\ racing.a.kind = "remove"
    /\ ~RaceUndisturbed
    /\ racing.a.res = Return(Null)
    /\ racing.b.res = Return(Null)

\* a pair has been served whose update was applied first, with the clock it
\* had read at an earlier instant, and between whose two store calls the
\* request of another client changed the collection
C15_RaceInterleaved ==
    /\ RaceDone
    /\ racing.a.kind = "update"
    /\ ReturnsEntity(racing.a.res)
    /\ racing.a.post # racing.b.pre
    /\ racing.a.t.at < now

====
